---- MODULE Spec2Model ----
(***************************************************************************)
(* swagger-convert: conversion of a Swagger 2.0 document into an OpenAPI   *)
(* 3 document (src/src/spec).                                              *)
(*                                                                         *)
(* Representation.                                                         *)
(*  - A string is a sequence of atoms; the atom "/" is the character the   *)
(*    code splits on, every other atom is a slash-free piece of text.  No  *)
(*    atom is the concatenation of other atoms, so two strings are equal   *)
(*    iff their atom sequences are.                                        *)
(*  - Option<T> is a sequence of length 0 (None) or 1 (Some).              *)
(*  - The conversions are pure functions: each specification draws its     *)
(*    input in Init and its actions apply the code to it.                  *)
(***************************************************************************)
EXTENDS Integers, Sequences, FiniteSets, TLC

VARIABLES
    pc,             \* position of the conversion being run
    ref_location,   \* RefOr::Ref: the source pointer string
    ref_out,        \* the pointer string of the target openapi::Ref
    node,           \* a JSON schema node, before deserialization
    parsed,         \* serde's result for the node: Result<RefOr<Schema>>
    converted,      \* the target openapi::RefOr<openapi::Schema>
    parameters,     \* Operation.parameters: Option<Vec<Parameter>>
    idx,            \* number of parameters the loop has consumed
    openapi_params, \* the loop's accumulator Vec<openapi::path::Parameter>
    openapi_operation, \* the target operation being built
    swagger,        \* the source document (struct Swagger)
    value,          \* the argument of the From impl being run
    openapi,        \* the target value a conversion returns
    extension_map,  \* struct Extensions, after deserialization: self.0
    todo,           \* the nodes whose conversion has been called for
    conversions,    \* number of calls of From<Schema> so far
    files,          \* the file system: path -> content
    args,           \* the command line: the swagger path and --out
    stdout          \* what main has printed

laterVars == <<swagger, value, openapi, extension_map, todo, conversions,
               files, args, stdout>>

vars == <<pc, ref_location, ref_out, node, parsed, converted,
          parameters, idx, openapi_params, openapi_operation, laterVars>>

None == <<>>
Some(x) == <<x>>
IsSome(o) == Len(o) = 1
Unwrap(o) == o[1]

(***************************************************************************)
(* Strings                                                                 *)
(***************************************************************************)
Slash == "/"

\* The text before the first "/" of s (the whole of s when it has none).
RECURSIVE UpToSlash(_)
UpToSlash(s) ==
    IF s = <<>> \/ Head(s) = Slash THEN <<>>
    ELSE <<Head(s)>> \o UpToSlash(Tail(s))

\* The text after the first "/" of s; only used when s has one.
RECURSIVE AfterSlash(_)
AfterSlash(s) ==
    IF Head(s) = Slash THEN Tail(s) ELSE AfterSlash(Tail(s))

HasSlash(s) == \E k \in 1..Len(s) : s[k] = Slash

\* str::split('/'): the pieces between the slashes, at least one piece.
RECURSIVE Split(_)
Split(s) ==
    IF HasSlash(s) THEN <<UpToSlash(s)>> \o Split(AfterSlash(s))
    ELSE <<s>>

\* Itertools::intersperse(pieces, "/").collect::<String>()
RECURSIVE Intersperse(_)
Intersperse(pieces) ==
    IF pieces = <<>> THEN <<>>
    ELSE IF Len(pieces) = 1 THEN pieces[1]
    ELSE pieces[1] \o <<Slash>> \o Intersperse(Tail(pieces))

(***************************************************************************)
(* Reference resolver (mod.rs)                                             *)
(***************************************************************************)
\* The closure |element| match element { "definitions" => "schemas", _ => element }.
\* It is applied to every element; the position is not consulted.
MapElement(element, position) ==
    IF element = <<"definitions">> THEN <<"schemas">> ELSE element

\* RefOr::openapi_ref_location
openapi_ref_location(loc) ==
    LET elements == Tail(Split(loc))      \* .split('/').skip(1)
        mapped   == [k \in 1..Len(elements) |-> MapElement(elements[k], k)]
    IN  Intersperse(<<<<"#">>, <<"components">>>> \o mapped)

(***************************************************************************)
(* JSON schema nodes                                                       *)
(*                                                                         *)
(* A node is a JSON object, described by the keys the deserializers read:  *)
(*   ref        Option<pointer>: the "$ref" key, holding a string          *)
(*   type       [k, v]: "absent"; "type" (one type name, v = <<name>>);    *)
(*              "set" (a JSON list of type names); "bad" (a value that     *)
(*              openapi::SchemaType rejects, such as 5 or "file")          *)
(*   items      [k, v]: "absent"; "one" (a JSON object, v = <<node>>);     *)
(*              "list" (a JSON list of objects); "bad" (e.g. a string)     *)
(*   allOf      [k, v]: "absent"; "list" (a JSON list of objects)          *)
(*   additionalProperties                                                  *)
(*              [k, b, v]: "absent", "null", "bool" (b), "string",         *)
(*              "number", "list", "map" (a JSON object, v = <<node>>)      *)
(*   x_nullable "absent", "true", "false", "other" (not a boolean)         *)
(*   ill_typed  which optional key holds a value of the wrong JSON type:   *)
(*              "none"; "array" (uniqueItems, a key only Array declares);  *)
(*              "object" (pattern, only Object declares it); "common"      *)
(*              (title, declared by Array, Object and AllOf)               *)
(***************************************************************************)
Absent == [k |-> "absent", v |-> <<>>]
OneType(t) == [k |-> "type", v |-> <<t>>]
TypeSet(ts) == [k |-> "set", v |-> ts]
BadValue == [k |-> "bad", v |-> <<>>]
OneNode(n) == [k |-> "one", v |-> <<n>>]
NodeList(ns) == [k |-> "list", v |-> ns]
NoAddl == [k |-> "absent", b |-> FALSE, v |-> <<>>]
AddlOf(kind) == [k |-> kind, b |-> FALSE, v |-> <<>>]
AddlBool(b) == [k |-> "bool", b |-> b, v |-> <<>>]
AddlMap(n) == [k |-> "map", b |-> FALSE, v |-> <<n>>]

\* The JSON object {}.
EmptyNode ==
    [ref |-> None, type |-> Absent, items |-> Absent, allOf |-> Absent,
     additionalProperties |-> NoAddl, x_nullable |-> "absent",
     ill_typed |-> "none"]

(***************************************************************************)
(* Deserialization (serde) of schema nodes, definition.rs and mod.rs       *)
(***************************************************************************)
Err == [ok |-> FALSE, v |-> <<>>]
Ok(x) == [ok |-> TRUE, v |-> <<x>>]

\* openapi::SchemaType, the "type" field of Array and of Object: the key is
\* required, and holds a type name or a list of type names.
TypeParses(n) == n.type.k \in {"type", "set"}

RefOrRef(loc) == [k |-> "Ref", ref |-> loc, v |-> <<>>]
RefOrT(x) == [k |-> "T", ref |-> <<>>, v |-> <<x>>]

RECURSIVE DeserializeRefOr(_)
RECURSIVE DeserializeSchema(_)
RECURSIVE DeserializeAll(_)

\* Vec<RefOr<Schema>>: every element has to parse.
DeserializeAll(ns) ==
    IF ns = <<>> THEN Ok(<<>>)
    ELSE LET first == DeserializeRefOr(Head(ns))
             rest  == DeserializeAll(Tail(ns))
         IN  IF first.ok /\ rest.ok
             THEN Ok(<<Unwrap(first.v)>> \o Unwrap(rest.v))
             ELSE Err

\* Option<Box<AdditionalProperties<Schema>>>; AdditionalProperties is
\* untagged: RefOr, then FreeForm(bool), then Any(BTreeMap).  A missing key
\* and a null are None; a value no variant takes fails the field.
DeserializeAdditionalProperties(a) ==
    CASE a.k \in {"absent", "null"} -> Ok(None)
      [] a.k = "bool" -> Ok(Some([k |-> "FreeForm", b |-> a.b, v |-> <<>>]))
      [] a.k = "map" ->
            LET r == DeserializeRefOr(Unwrap(a.v))
            IN  IF r.ok
                THEN Ok(Some([k |-> "RefOr", b |-> FALSE, v |-> r.v]))
                ELSE Ok(Some([k |-> "Any", b |-> FALSE, v |-> <<>>]))
      [] OTHER -> Err

\* struct Array, as a bug would have it: the variant is taken only when the
\* type is "array"
ArrayOnlyOfTypeArray(n) ==
    LET items == IF n.items.k = "one"
                 THEN DeserializeRefOr(Unwrap(n.items.v)) ELSE Err
    IN  IF n.type = OneType("array") /\ items.ok
           /\ n.ill_typed \notin {"array", "common"}
        THEN Ok([variant |-> "Array", schema_type |-> n.type,
                 items |-> items.v, additional_properties |-> None,
                 extensions |-> n.x_nullable])
        ELSE Err

\* struct Array: "type" and "items" are required.
DeserializeArray(n) ==
    LET items == IF n.items.k = "one"
                 THEN DeserializeRefOr(Unwrap(n.items.v)) ELSE Err
    IN  IF TypeParses(n) /\ items.ok /\ n.ill_typed \notin {"array", "common"}
        THEN Ok([variant |-> "Array", schema_type |-> n.type,
                 items |-> items.v, additional_properties |-> None,
                 extensions |-> n.x_nullable])
        ELSE Err

\* struct Object: only "type" is required; it has no "items" field.
DeserializeObject(n) ==
    LET addl == DeserializeAdditionalProperties(n.additionalProperties)
    IN  IF TypeParses(n) /\ addl.ok /\ n.ill_typed \notin {"object", "common"}
        THEN Ok([variant |-> "Object", schema_type |-> n.type,
                 items |-> <<>>, additional_properties |-> Unwrap(addl.v),
                 extensions |-> n.x_nullable])
        ELSE Err

\* struct AllOf: its only required field is `items: Vec<RefOr<Schema>>`,
\* read under rename_all = "camelCase", that is from the key "items".  The
\* key "allOf" is not a field of the struct and is skipped.
DeserializeAllOf(n) ==
    LET items == IF n.items.k = "list" THEN DeserializeAll(n.items.v) ELSE Err
    IN  IF items.ok /\ n.ill_typed # "common"
        THEN Ok([variant |-> "AllOf", schema_type |-> Absent,
                 items |-> Unwrap(items.v), additional_properties |-> None,
                 extensions |-> n.x_nullable])
        ELSE Err

\* The order of the variants of the untagged enum, as a bug would have it.
SchemaObjectFirst(array, object, allOf) ==
    IF object.ok THEN object ELSE IF array.ok THEN array ELSE allOf

\* #[serde(untagged)] enum Schema { Array, Object, AllOf }: the first
\* variant that deserializes.
FirstOk(array, object, allOf) ==
    IF array.ok THEN array ELSE IF object.ok THEN object ELSE allOf

DeserializeSchema(n) ==
    FirstOk(DeserializeArray(n), DeserializeObject(n), DeserializeAllOf(n))

\* #[serde(untagged)] enum RefOr<T> { Ref(openapi::Ref), T(T) }
DeserializeRefOr(n) ==
    IF IsSome(n.ref) THEN Ok(RefOrRef(Unwrap(n.ref)))
    ELSE LET t == DeserializeSchema(n)
         IN  IF t.ok THEN Ok(RefOrT(Unwrap(t.v))) ELSE Err

(***************************************************************************)
(* Conversion of schemas (definition.rs, mod.rs)                           *)
(*                                                                         *)
(* A target schema records what the code hands to the utoipa builder:      *)
(*   kind, schema_type, nullable (the argument of .nullable()), items,     *)
(*   additional_properties.                                                *)
(***************************************************************************)
\* Extensions::nullable
nullable(extensions) == extensions = "true"

\* openapi::Schema::default(), an empty Object
DefaultSchema ==
    [kind |-> "Object", schema_type |-> OneType("object"), nullable |-> FALSE,
     items |-> <<>>, additional_properties |-> None]

\* AdditionalProperties::Any(_) => RefOr(openapi::RefOr::T(V::default()))
AnyPlaceholder == [k |-> "RefOr", b |-> FALSE, v |-> <<RefOrT(DefaultSchema)>>]

RECURSIVE into_openapi_ref(_)
RECURSIVE ConvertSchema(_)

\* AdditionalProperties::into_openapi_additional_properties
into_openapi_additional_properties(p) ==
    CASE p.k = "RefOr" ->
            [k |-> "RefOr", b |-> FALSE, v |-> <<into_openapi_ref(Unwrap(p.v))>>]
      [] p.k = "FreeForm" -> [k |-> "FreeForm", b |-> p.b, v |-> <<>>]
      [] p.k = "Any" -> AnyPlaceholder

\* impl From<Schema> for openapi::Schema
ConvertSchema(s) ==
    CASE s.variant = "Array" ->
            \* no .schema_type(..): the builder keeps its own Type::Array
            [kind |-> "Array", schema_type |-> OneType("array"),
             nullable |-> nullable(s.extensions),
             items |-> <<into_openapi_ref(s.items[1])>>,
             additional_properties |-> None]
      [] s.variant = "Object" ->
            [kind |-> "Object", schema_type |-> s.schema_type,
             nullable |-> nullable(s.extensions),
             items |-> <<>>,
             additional_properties |->
                IF IsSome(s.additional_properties)
                THEN Some(into_openapi_additional_properties(
                              Unwrap(s.additional_properties)))
                ELSE None]
      [] s.variant = "AllOf" ->
            [kind |-> "AllOf", schema_type |-> Absent,
             nullable |-> nullable(s.extensions),
             items |-> [j \in 1..Len(s.items) |-> into_openapi_ref(s.items[j])],
             additional_properties |-> None]

\* RefOr::into_openapi_ref
into_openapi_ref(r) ==
    IF r.k = "Ref" THEN RefOrRef(openapi_ref_location(r.ref))
    ELSE RefOrT(ConvertSchema(Unwrap(r.v)))

(***************************************************************************)
(* Inputs of the reference resolver                                        *)
(***************************************************************************)
MaxSegments == 3

SegmentNames == {"definitions", "responses", "parameters", "Pet"}

RECURSIVE SeqsUpTo(_, _)
SeqsUpTo(S, n) ==
    IF n = 0 THEN {<<>>}
    ELSE LET shorter == SeqsUpTo(S, n - 1)
         IN  shorter \cup {Append(q, x) : q \in shorter, x \in S}

SegmentLists == SeqsUpTo(SegmentNames, MaxSegments) \ {<<>>}

\* The internal pointer "#/s1/.../sn" of a list of segment names.
RECURSIVE Pointer(_)
Pointer(segs) ==
    IF segs = <<>> THEN <<"#">>
    ELSE Pointer(SubSeq(segs, 1, Len(segs) - 1)) \o <<Slash, segs[Len(segs)]>>

InternalPointers == {Pointer(segs) : segs \in SegmentLists}

(***************************************************************************)
(* Specification SpecRef: one reference is rewritten                       *)
(***************************************************************************)
IdleRef == ref_location = <<>> /\ ref_out = <<>>
IdleSchema == node = <<>> /\ parsed = <<>> /\ converted = <<>>
IdleOp == /\ parameters = <<>> /\ idx = 0 /\ openapi_params = <<>>
          /\ openapi_operation = <<>>
IdleDocument == swagger = <<>> /\ value = <<>> /\ openapi = <<>>
IdleExtensions == extension_map = <<>>
IdleWalk == todo = <<>> /\ conversions = 0
IdleCli == files = <<>> /\ args = <<>> /\ stdout = <<>>
IdleLater == IdleDocument /\ IdleExtensions /\ IdleWalk /\ IdleCli

InitRef ==
    /\ pc = "ref"
    /\ ref_location \in InternalPointers
    /\ ref_out = <<>>
    /\ IdleSchema
    /\ IdleOp
    /\ IdleLater

\* RefOr::into_openapi_ref, the Ref arm
RewriteRef ==
    /\ pc = "ref"
    /\ ref_out' = openapi_ref_location(ref_location)
    /\ pc' = "ref_done"
    /\ UNCHANGED <<ref_location, node, parsed, converted,
                   parameters, idx, openapi_params, openapi_operation>>
    /\ UNCHANGED laterVars

NextRef == RewriteRef

SpecRef == InitRef /\ [][NextRef]_vars

(***************************************************************************)
(* Inputs of the schema resolver                                           *)
(***************************************************************************)
MaxDepth == 1

PetPointer == <<"#", Slash, "definitions", Slash, "Pet">>

RefNode == [EmptyNode EXCEPT !.ref = Some(PetPointer)]
StringNode == [EmptyNode EXCEPT !.type = OneType("string")]

\* The nodes nested in another node: a reference, a string schema, the
\* object {} (no schema), and arrays of these down to depth d.
RECURSIVE Kids(_)
Kids(d) ==
    {RefNode, StringNode, EmptyNode} \cup
    (IF d = 0 THEN {}
     ELSE {[EmptyNode EXCEPT !.type = OneType("array"), !.items = OneNode(k)] :
              k \in Kids(d - 1)})

NestedNodes == Kids(MaxDepth - 1)

TypeValues ==
    {Absent, OneType("string"), OneType("array"), OneType("object"),
     TypeSet(<<"string", "null">>), BadValue}

ItemsValues ==
    {Absent, BadValue, NodeList(<<StringNode, RefNode>>)}
    \cup {OneNode(k) : k \in NestedNodes}
    \cup {NodeList(<<k>>) : k \in NestedNodes}

AllOfValues == {Absent, NodeList(<<RefNode, StringNode>>)}

AdditionalPropertiesValues ==
    {NoAddl, AddlOf("null"), AddlOf("string"), AddlOf("number"),
     AddlOf("list"), AddlBool(TRUE), AddlBool(FALSE)}
    \cup {AddlMap(k) : k \in NestedNodes}

SchemaNodes ==
    [ref : {None}, type : TypeValues, items : ItemsValues,
     allOf : AllOfValues, additionalProperties : AdditionalPropertiesValues,
     x_nullable : {"absent", "true", "false", "other"},
     ill_typed : {"none", "array", "object", "common"}]

(***************************************************************************)
(* Specification SpecSchema: one entry of `definitions` is deserialized    *)
(* and converted                                                           *)
(***************************************************************************)
InitSchema ==
    /\ pc = "json"
    /\ node \in SchemaNodes \cup {RefNode}
    /\ parsed = <<>>
    /\ converted = <<>>
    /\ IdleRef
    /\ IdleOp
    /\ IdleLater

\* serde_json::from_*: RefOr<Schema>::deserialize
Deserialize ==
    /\ pc = "json"
    /\ parsed' = DeserializeRefOr(node)
    /\ pc' = IF parsed'.ok THEN "parsed" ELSE "parse_error"
    /\ UNCHANGED <<node, converted, ref_location, ref_out,
                   parameters, idx, openapi_params, openapi_operation>>
    /\ UNCHANGED laterVars

\* impl From<Definitions>: v.into_openapi_ref()
Convert ==
    /\ pc = "parsed"
    /\ converted' = into_openapi_ref(Unwrap(parsed.v))
    /\ pc' = "converted"
    /\ UNCHANGED <<node, parsed, ref_location, ref_out,
                   parameters, idx, openapi_params, openapi_operation>>
    /\ UNCHANGED laterVars

NextSchema == Deserialize \/ Convert

SpecSchema == InitSchema /\ [][NextSchema]_vars

\* The pointer the claim expects for the segments s1..sn.
ExpectedPointer(segs) ==
    Pointer(<<"components",
              IF segs[1] = "definitions" THEN "schemas" ELSE segs[1]>>
            \o Tail(segs))

\* C1: every internal pointer '#/s1/s2/.../sn' is rewritten to
\* '#/components/t1/s2/.../sn' with t1 = 'schemas' iff s1 = 'definitions';
\* the segments s2..sn are unchanged, also one that is 'definitions'.
C1_OnlyFirstSegmentRenamed ==
    pc = "ref_done" =>
        \A segs \in SegmentLists :
            ref_location = Pointer(segs) => ref_out = ExpectedPointer(segs)

\* The part of C1 the code does satisfy: no later segment is 'definitions'.
C1_RenamedWhenNoLaterDefinitions ==
    pc = "ref_done" =>
        \A segs \in SegmentLists :
            /\ ref_location = Pointer(segs)
            /\ \A k \in 2..Len(segs) : segs[k] # "definitions"
            => ref_out = ExpectedPointer(segs)

(***************************************************************************)
(* Claims about the schema resolver (SpecSchema)                           *)
(***************************************************************************)
Resolved == pc \in {"parsed", "parse_error", "converted"}

\* The variant the node settled as ("error": no variant took it).
ParsedVariant ==
    IF ~parsed.ok THEN "error"
    ELSE IF Unwrap(parsed.v).k = "Ref" THEN "Ref"
    ELSE Unwrap(Unwrap(parsed.v).v).variant

NestedParses(n) == DeserializeRefOr(n).ok

\* The required fields of each variant, read off the node's keys.
ArrayRequired(n) ==
    TypeParses(n) /\ n.items.k = "one" /\ NestedParses(Unwrap(n.items.v))
ObjectRequired(n) == TypeParses(n)
AllOfRequired(n) ==
    n.items.k = "list" /\ \A j \in 1..Len(n.items.v) : NestedParses(n.items.v[j])

\* A variant takes a node when its required fields parse and no key it
\* declares holds a value of the wrong type.
ArrayAccepts(n) == ArrayRequired(n) /\ n.ill_typed \notin {"array", "common"}
ObjectAccepts(n) ==
    /\ ObjectRequired(n)
    /\ n.ill_typed \notin {"object", "common"}
    /\ n.additionalProperties.k \in {"absent", "null", "bool", "map"}
AllOfAccepts(n) == AllOfRequired(n) /\ n.ill_typed # "common"

C8_AllOfKeyResolvesAsAllOf ==
    (Resolved /\ node.ref = None /\ node.type.k = "absent"
              /\ node.ill_typed = "none") =>
        /\ node.allOf.k = "list" =>
              /\ ParsedVariant = "AllOf"
              /\ pc = "converted" =>
                    Unwrap(converted.v).items =
                        [j \in 1..Len(node.allOf.v) |->
                            into_openapi_ref(
                                Unwrap(DeserializeRefOr(node.allOf.v[j]).v))]
        /\ node.allOf.k = "absent" => ParsedVariant = "error"

\* The node without its additionalProperties key.
WithoutAdditionalProperties(n) == [n EXCEPT !.additionalProperties = NoAddl]

\* C9: for an Object schema, an additionalProperties value that is a
\* reference or schema maps to its conversion, a boolean b to the free-form
\* flag b, and every other JSON shape (a map that is no schema, a string, a
\* number, an array, null) to the placeholder empty schema, with no error and
\* with the variant the node resolves to unchanged.
C9_AdditionalPropertiesPolicy ==
    LET a == node.additionalProperties
        bare == DeserializeRefOr(WithoutAdditionalProperties(node))
    IN  (Resolved /\ node.ref = None /\ a.k # "absent"
           /\ bare.ok /\ Unwrap(Unwrap(bare.v).v).variant = "Object") =>
            /\ ParsedVariant = "Object"
            /\ pc = "converted" =>
                  Unwrap(converted.v).additional_properties =
                     Some(CASE a.k = "bool" ->
                                 [k |-> "FreeForm", b |-> a.b, v |-> <<>>]
                            [] a.k = "map" /\ NestedParses(Unwrap(a.v)) ->
                                 [k |-> "RefOr", b |-> FALSE,
                                  v |-> <<into_openapi_ref(Unwrap(
                                            DeserializeRefOr(Unwrap(a.v)).v))>>]
                            [] OTHER -> AnyPlaceholder)

\* What the code does satisfy of C9: a JSON object that is neither a
\* reference nor a schema becomes the placeholder, null counts as an absent
\* key, and a string, number or array makes Object refuse the node.
C9_OnlyObjectsGetPlaceholder ==
    LET a == node.additionalProperties
        bare == DeserializeRefOr(WithoutAdditionalProperties(node))
    IN  (Resolved /\ node.ref = None /\ a.k # "absent"
           /\ bare.ok /\ Unwrap(Unwrap(bare.v).v).variant = "Object") =>
            /\ a.k \in {"string", "number", "list"} => ParsedVariant # "Object"
            /\ a.k \in {"null", "bool", "map"} => ParsedVariant = "Object"
            /\ pc = "converted" /\ ParsedVariant = "Object" =>
                  Unwrap(converted.v).additional_properties =
                     CASE a.k = "null" -> None
                       [] a.k = "bool" ->
                            Some([k |-> "FreeForm", b |-> a.b, v |-> <<>>])
                       [] a.k = "map" /\ NestedParses(Unwrap(a.v)) ->
                            Some([k |-> "RefOr", b |-> FALSE,
                                  v |-> <<into_openapi_ref(Unwrap(
                                            DeserializeRefOr(Unwrap(a.v)).v))>>])
                       [] OTHER -> Some(AnyPlaceholder)

(***************************************************************************)
(* Parameter classifier (path.rs)                                          *)
(*                                                                         *)
(* A parameter, as serde reads it:                                         *)
(*   name, description (Option), required ("absent", "true", "false": the  *)
(*   JSON key), in ("query", "header", "path", "formData", "body"),        *)
(*   generic (Option<ParameterGeneric>, Some unless in = "body"),          *)
(*   schema (Option<RefOr<Schema>>, Some iff in = "body").                 *)
(* A ParameterGeneric is [schema_type, items (Option), extensions].        *)
(***************************************************************************)
\* #[serde(default)] pub required: bool
ParameterRequired(p) == p.required = "true"

\* is_required, as a bug would have it
is_required_inverted(required) == IF required THEN "False" ELSE "True"

\* fn is_required(required: bool) -> openapi::Required
is_required(required) == IF required THEN "True" ELSE "False"

\* pub(crate) fn nullable_or_type(is_nullable, schema_type) -> SchemaType
nullable_or_type(is_nullable, schema_type) ==
    IF is_nullable THEN TypeSet(<<schema_type, "null">>)
    ELSE OneType(schema_type)

\* A panic unwinds through every caller: no value is returned.
Panic == [ok |-> FALSE, v |-> <<>>]

\* impl From<ParameterGeneric> for openapi::Schema
RECURSIVE ConvertGeneric(_)
ConvertGeneric(g) ==
    IF g.schema_type = "array"
    THEN IF ~IsSome(g.items) THEN Panic       \* value.items.unwrap()
         ELSE LET inner == ConvertGeneric(Unwrap(g.items))
              IN  IF ~inner.ok THEN Panic
                  ELSE Ok([kind |-> "Array",
                           schema_type |->
                               nullable_or_type(nullable(g.extensions),
                                                g.schema_type),
                           nullable |-> FALSE,
                           items |-> <<RefOrT(Unwrap(inner.v))>>,
                           additional_properties |-> None])
    ELSE Ok([kind |-> "Object",
             schema_type |->
                 nullable_or_type(nullable(g.extensions), g.schema_type),
             nullable |-> FALSE,
             items |-> <<>>,
             additional_properties |-> None])

\* The match of try_from, as a bug would have it: a path parameter comes out
\* as a query parameter.
ParameterInPathAsQuery(location) ==
    CASE location = "query" -> "Query"
      [] location = "header" -> "Header"
      [] location = "path" -> "Query"

\* ParameterIn::Query => openapi::path::ParameterIn::Query, and so on
ParameterInOf(location) ==
    CASE location = "query" -> "Query"
      [] location = "header" -> "Header"
      [] location = "path" -> "Path"

\* impl TryFrom<Parameter> for openapi::path::Parameter:
\* status "ok" (v holds the parameter), "err" (InvalidPathParameter) or
\* "panic".
TryFromParameter(p) ==
    IF p.in \in {"formData", "body"}
    THEN [status |-> "err", v |-> <<>>]
    ELSE LET schema == ConvertGeneric(Unwrap(p.generic))
         IN  IF ~schema.ok THEN [status |-> "panic", v |-> <<>>]
             ELSE [status |-> "ok",
                   v |-> <<[name |-> p.name,
                            description |-> p.description,
                            schema |-> Some(Unwrap(schema.v)),
                            parameter_in |-> ParameterInOf(p.in),
                            required |-> is_required(ParameterRequired(p))]>>]

\* RequestBodyBuilder::new().description(..).required(..).content(key, ..)
\* .build(): a fresh body whose content map has the one entry.
RequestBody(p, media_type, schema) ==
    [description |-> p.description,
     required |-> Some(is_required(ParameterRequired(p))),
     content |-> {[media_type |-> media_type, schema |-> Some(schema)]}]

\* The ParameterIn::Body arm of the loop
BodyRequestBody(p) ==
    RequestBody(p, "application/json", into_openapi_ref(Unwrap(p.schema)))

\* The ParameterIn::FormData arm of the loop, given the converted schema
FormDataRequestBody(p, schema) ==
    RequestBody(p, "application/x-www-form-urlencoded", RefOrT(schema))

\* The assignment, as a bug would have it: the first body is kept.
KeepFirstRequestBody(old, new) == IF IsSome(old) THEN old ELSE Some(new)

\* openapi_operation.request_body = Some(openapi_req_body);
AssignRequestBody(old, new) == Some(new)

(***************************************************************************)
(* Inputs of the parameter classifier                                      *)
(***************************************************************************)
MaxParams == 2

Generic(t, items, x) == [schema_type |-> t, items |-> items, extensions |-> x]

StringGeneric == Generic("string", None, "absent")
ArrayOfStrings == Generic("array", Some(StringGeneric), "absent")
ArrayWithoutItems == Generic("array", None, "absent")
NullableInteger == Generic("integer", None, "true")
ArrayOfItemlessArrays == Generic("array", Some(ArrayWithoutItems), "true")

ObjectNode == [EmptyNode EXCEPT !.type = OneType("object")]

\* (in, generic, schema): the shapes a parameter's flattened ParameterIn takes
ParameterShapes ==
    {[in |-> "query", generic |-> Some(g), schema |-> None] :
        g \in {StringGeneric, ArrayOfStrings, ArrayWithoutItems,
               NullableInteger, ArrayOfItemlessArrays}}
    \cup {[in |-> "header", generic |-> Some(StringGeneric), schema |-> None],
          [in |-> "path", generic |-> Some(StringGeneric), schema |-> None]}
    \cup {[in |-> "formData", generic |-> Some(g), schema |-> None] :
            g \in {StringGeneric, ArrayOfStrings, ArrayWithoutItems}}
    \cup {[in |-> "body", generic |-> None, schema |-> Some(r)] :
            r \in {RefOrRef(PetPointer),
                   Unwrap(DeserializeRefOr(ObjectNode).v)}}

\* (name, description, required)
ParameterHeads ==
    {[name |-> "a", description |-> None, required |-> "absent"],
     [name |-> "a", description |-> Some("about a"), required |-> "true"],
     [name |-> "b", description |-> Some("about b"), required |-> "false"],
     [name |-> "b", description |-> None, required |-> "true"]}

Parameters ==
    {[name |-> h.name, description |-> h.description, required |-> h.required,
      in |-> s.in, generic |-> s.generic, schema |-> s.schema] :
        h \in ParameterHeads, s \in ParameterShapes}

(***************************************************************************)
(* Specification SpecOp: one operation of the document is converted        *)
(* (impl From<Operation> for openapi::path::Operation)                     *)
(***************************************************************************)
InitOp ==
    /\ pc = "op"
    /\ parameters \in {None} \cup {Some(ps) : ps \in SeqsUpTo(Parameters, MaxParams)}
    /\ idx = 0
    /\ openapi_params = <<>>
    /\ openapi_operation = <<>>
    /\ IdleRef
    /\ IdleSchema
    /\ IdleLater

NextParameter == Unwrap(parameters)[idx + 1]

\* OperationBuilder::new()...build(): no parameters, no request body yet;
\* `if let Some(params) = value.parameters` opens the loop.
OperationBuild ==
    /\ pc = "op"
    /\ openapi_operation' = [parameters |-> None, request_body |-> None]
    /\ pc' = IF IsSome(parameters) THEN "op_loop" ELSE "op_done"
    /\ UNCHANGED <<parameters, idx, openapi_params,
                   ref_location, ref_out, node, parsed, converted>>
    /\ UNCHANGED laterVars

\* ParameterIn::FormData(form_body) => ...
LoopFormData ==
    /\ pc = "op_loop"
    /\ idx < Len(Unwrap(parameters))
    /\ NextParameter.in = "formData"
    /\ LET schema == ConvertGeneric(Unwrap(NextParameter.generic))
       IN  IF schema.ok
           THEN /\ openapi_operation' =
                      [openapi_operation EXCEPT !.request_body =
                          AssignRequestBody(@,
                              FormDataRequestBody(NextParameter,
                                                  Unwrap(schema.v)))]
                /\ idx' = idx + 1
                /\ pc' = pc
           ELSE /\ pc' = "panicked"
                /\ UNCHANGED <<openapi_operation, idx>>
    /\ UNCHANGED <<parameters, openapi_params,
                   ref_location, ref_out, node, parsed, converted>>
    /\ UNCHANGED laterVars

\* ParameterIn::Body(body) => ...
LoopBody ==
    /\ pc = "op_loop"
    /\ idx < Len(Unwrap(parameters))
    /\ NextParameter.in = "body"
    /\ openapi_operation' =
          [openapi_operation EXCEPT !.request_body =
              AssignRequestBody(@, BodyRequestBody(NextParameter))]
    /\ idx' = idx + 1
    /\ UNCHANGED <<pc, parameters, openapi_params,
                   ref_location, ref_out, node, parsed, converted>>
    /\ UNCHANGED laterVars

\* _ => if let Ok(param) = param.try_into() { openapi_params.push(param) }
LoopParameter ==
    /\ pc = "op_loop"
    /\ idx < Len(Unwrap(parameters))
    /\ NextParameter.in \notin {"formData", "body"}
    /\ LET r == TryFromParameter(NextParameter)
       IN  CASE r.status = "ok" ->
                    /\ openapi_params' = Append(openapi_params, Unwrap(r.v))
                    /\ idx' = idx + 1
                    /\ pc' = pc
             [] r.status = "err" ->
                    /\ idx' = idx + 1
                    /\ UNCHANGED <<openapi_params, pc>>
             [] r.status = "panic" ->
                    /\ pc' = "panicked"
                    /\ UNCHANGED <<openapi_params, idx>>
    /\ UNCHANGED <<parameters, openapi_operation,
                   ref_location, ref_out, node, parsed, converted>>
    /\ UNCHANGED laterVars

\* openapi_operation.parameters = Some(openapi_params);
LoopEnd ==
    /\ pc = "op_loop"
    /\ idx = Len(Unwrap(parameters))
    /\ openapi_operation' =
          [openapi_operation EXCEPT !.parameters = Some(openapi_params)]
    /\ pc' = "op_done"
    /\ UNCHANGED <<parameters, idx, openapi_params,
                   ref_location, ref_out, node, parsed, converted>>
    /\ UNCHANGED laterVars

NextOp ==
    \/ OperationBuild
    \/ LoopFormData
    \/ LoopBody
    \/ LoopParameter
    \/ LoopEnd

SpecOp == InitOp /\ [][NextOp]_vars

(***************************************************************************)
(* Claims about the parameter classifier (SpecOp)                          *)
(***************************************************************************)
Params == Unwrap(parameters)
IsLocated(p) == p.in \in {"query", "header", "path"}
IsPayload(p) == p.in \in {"formData", "body"}

\* The parameter's location-specific schema can be converted: it is no
\* array that lacks its items, at any depth.
RECURSIVE WellFormedGeneric(_)
WellFormedGeneric(g) ==
    g.schema_type = "array" =>
        IsSome(g.items) /\ WellFormedGeneric(Unwrap(g.items))
Convertible(p) == p.in = "body" \/ WellFormedGeneric(Unwrap(p.generic))
LocatedAndConvertible(p) == IsLocated(p) /\ Convertible(p)

ExpectedLocation(p) ==
    CASE p.in = "query" -> "Query"
      [] p.in = "header" -> "Header"
      [] p.in = "path" -> "Path"
ExpectedRequired(p) == IF p.required = "true" THEN "True" ELSE "False"

\* The output list holds exactly the parameters `expected`, in that order,
\* with their names, locations and required flags.
OutputListIs(expected) ==
    /\ IsSome(openapi_operation.parameters)
    /\ LET out == Unwrap(openapi_operation.parameters)
       IN  /\ Len(out) = Len(expected)
           /\ \A j \in 1..Len(expected) :
                 /\ out[j].name = expected[j].name
                 /\ out[j].parameter_in = ExpectedLocation(expected[j])
                 /\ out[j].required = ExpectedRequired(expected[j])

\* The conversion has ended: it returned the operation, or it panicked and
\* returned nothing.
Ended == pc \in {"op_done", "panicked"}
Returned == pc = "op_done"

\* C2: the conversion of a parsed document is total, it never panics; also
\* for a parameter of type 'array' whose 'items' is absent.
C2_ConversionIsTotal == pc # "panicked"

\* C3: when the list holds a parameter whose location-specific schema cannot
\* be converted, the conversion completes, that parameter is absent from the
\* output list and every other Query/Header/Path parameter is present.
C3_DropOnMalformed ==
    (Ended /\ IsSome(parameters)
       /\ \E j \in 1..Len(Params) : ~Convertible(Params[j])) =>
        /\ Returned
        /\ OutputListIs(SelectSeq(Params, LocatedAndConvertible))

\* C4: the output parameter list of an operation with a parameter list is
\* exactly its Query/Header/Path parameters, in source order, each with its
\* name, location and required flag; no FormData or Body parameter is in it.
C4_ParameterPartition ==
    (Returned /\ IsSome(parameters)) =>
        OutputListIs(SelectSeq(Params, IsLocated))

\* C4 witness: a list mixing a located parameter and a payload parameter has
\* been converted.
C4_Witness ==
    /\ Returned
    /\ IsSome(parameters)
    /\ \E j, l \in 1..Len(Params) : IsLocated(Params[j]) /\ IsPayload(Params[l])
    /\ Len(Unwrap(openapi_operation.parameters)) >= 1

ExpectedBody(p) ==
    [description |-> p.description,
     required |-> Some(ExpectedRequired(p)),
     content |->
        {[media_type |-> IF p.in = "formData"
                         THEN "application/x-www-form-urlencoded"
                         ELSE "application/json",
          schema |-> Some(IF p.in = "formData"
                          THEN RefOrT(Unwrap(ConvertGeneric(Unwrap(p.generic)).v))
                          ELSE into_openapi_ref(Unwrap(p.schema)))]}]

\* C5: a FormData parameter yields a request body whose only content entry is
\* 'application/x-www-form-urlencoded' with the converted generic schema, a
\* Body parameter one whose only entry is 'application/json' with the
\* converted or rewritten schema; the body's required flag is the
\* parameter's (false when omitted).  No FormData/Body parameter: no body.
\* (Params[idx] is the parameter the loop has just consumed.)
C5_RequestBodyWrapping ==
    /\ (pc \in {"op_loop", "op_done"} /\ idx >= 1 /\ IsPayload(Params[idx])) =>
          openapi_operation.request_body = Some(ExpectedBody(Params[idx]))
    /\ (Returned
          /\ (IsSome(parameters) =>
                 \A j \in 1..Len(Params) : ~IsPayload(Params[j]))) =>
          openapi_operation.request_body = None

\* C5 witness: the loop has just wrapped a FormData parameter that omits
\* 'required'.
C5_Witness ==
    /\ pc = "op_loop"
    /\ idx >= 1
    /\ Params[idx].in = "formData"
    /\ Params[idx].required = "absent"
    /\ IsSome(openapi_operation.request_body)

LastPayload ==
    Params[CHOOSE j \in 1..Len(Params) :
              /\ IsPayload(Params[j])
              /\ \A l \in (j + 1)..Len(Params) : ~IsPayload(Params[l])]

\* C6: with n >= 1 FormData/Body parameters, the output has one request
\* body with one content entry, built from the last of them (content type,
\* schema, description, required flag); nothing of the earlier ones is kept.
C6_LastPayloadWins ==
    (Returned /\ IsSome(parameters)
       /\ \E j \in 1..Len(Params) : IsPayload(Params[j])) =>
        /\ openapi_operation.request_body = Some(ExpectedBody(LastPayload))
        /\ Cardinality(Unwrap(openapi_operation.request_body).content) = 1

\* C6 witness: two payload parameters of different kinds and descriptions
\* have been converted.
C6_Witness ==
    /\ Returned
    /\ IsSome(parameters)
    /\ \E j, l \in 1..Len(Params) :
          /\ j < l
          /\ IsPayload(Params[j]) /\ IsPayload(Params[l])
          /\ Params[j].in # Params[l].in
          /\ Params[j].description # Params[l].description

(***************************************************************************)
(* Nullability                                                             *)
(***************************************************************************)
Members(q) == {q[j] : j \in 1..Len(q)}

\* The types of a target schema.  The builder's .nullable(flag) belongs to
\* utoipa; it widens the type it was handed with the null type.
TargetTypes(schema) ==
    Members(schema.schema_type.v)
        \cup (IF schema.nullable THEN {"null"} ELSE {})

\* C10: a schema node whose 'x-nullable' is true converts to a target whose
\* type is the set of the declared type(s) and null; without the flag, or
\* with it false, the declared type is kept unchanged.
C10_NullableWidensDeclaredType ==
    (pc = "converted" /\ node.ref = None
       /\ ParsedVariant \in {"Array", "Object"}) =>
        LET target == Unwrap(converted.v)
        IN  IF node.x_nullable = "true"
            THEN TargetTypes(target) = Members(node.type.v) \cup {"null"}
            ELSE /\ target.schema_type = node.type
                 /\ ~target.nullable

\* The generic half of C10, which the code satisfies: a located parameter's
\* schema has the type list <<declared, null>> iff 'x-nullable' is true.
C10_GenericShapesWiden ==
    (pc = "op_loop" /\ idx >= 1 /\ IsLocated(Params[idx])) =>
        LET g == Unwrap(Params[idx].generic)
            out == Unwrap(openapi_params[Len(openapi_params)].schema)
        IN  out.schema_type =
                IF g.extensions = "true"
                THEN TypeSet(<<g.schema_type, "null">>)
                ELSE OneType(g.schema_type)

(***************************************************************************)
(* Server synthesis (src/src/spec/server.rs)                               *)
(***************************************************************************)
\* the match of openapi_servers_from_host, as a bug would have it
ProtocolPrefixSecureOnly(s) ==
    CASE s = "Http" -> "https"
      [] s = "Https" -> "https"
      [] s = "Ws" -> "wss"
      [] s = "Wss" -> "wss"

\* let prefix = match s { ProtocolSchemes::Http => "http", ... }
ProtocolPrefix(s) ==
    CASE s = "Http" -> "http"
      [] s = "Https" -> "https"
      [] s = "Ws" -> "ws"
      [] s = "Wss" -> "wss"

\* format!("{prefix}://{host}{base_path}"), strings being atom sequences
FormatUrl(prefix, host, base_path) ==
    <<prefix>> \o <<"://">> \o host \o base_path

\* openapi::Server::new(url)
Server(url) == [url |-> url]

\* base_path.as_deref().unwrap_or("/")
BasePathOrSlash(base_path) ==
    IF IsSome(base_path) THEN Unwrap(base_path) ELSE <<Slash>>

\* pub(crate) fn openapi_servers_from_host(schemes, host, base_path)
openapi_servers_from_host(schemes, host, base_path) ==
    IF ~IsSome(host) THEN None              \* let host = host?;
    ELSE IF ~IsSome(schemes) THEN None      \* schemes?
    ELSE Some([i \in 1..Len(Unwrap(schemes)) |->
                  Server(FormatUrl(ProtocolPrefix(Unwrap(schemes)[i]),
                                   Unwrap(host),
                                   BasePathOrSlash(base_path)))])

MaxSchemes == 2

ProtocolSchemes == {"Http", "Https", "Ws", "Wss"}
Hosts == {<<"example.com">>, <<"localhost", ":", "8080">>}
BasePaths == {<<>>, <<Slash>>, <<Slash, "v1">>}

ServerArguments ==
    [schemes : {None} \cup {Some(q) : q \in SeqsUpTo(ProtocolSchemes, MaxSchemes)},
     host : {None} \cup {Some(h) : h \in Hosts},
     base_path : {None} \cup {Some(b) : b \in BasePaths}]

IdleEarly == IdleRef /\ IdleSchema /\ IdleOp

earlyVars == <<ref_location, ref_out, node, parsed, converted,
               parameters, idx, openapi_params, openapi_operation>>

InitServer ==
    /\ pc = "servers"
    /\ value \in ServerArguments
    /\ openapi = <<>>
    /\ swagger = <<>>
    /\ IdleExtensions /\ IdleWalk /\ IdleCli
    /\ IdleEarly

\* server::openapi_servers_from_host(swagger.schemes, swagger.host,
\*                                   swagger.base_path)
ServersFromHost ==
    /\ pc = "servers"
    /\ openapi' = openapi_servers_from_host(value.schemes, value.host,
                                            value.base_path)
    /\ pc' = "servers_done"
    /\ UNCHANGED <<value, swagger, extension_map, todo, conversions,
                   files, args, stdout, earlyVars>>

NextServer == ServersFromHost

SpecServer == InitServer /\ [][NextServer]_vars

SchemeText(s) ==
    CASE s = "Http" -> "http"
      [] s = "Https" -> "https"
      [] s = "Ws" -> "ws"
      [] s = "Wss" -> "wss"

\* C11: no servers when host or schemes is absent; with both present and K
\* schemes, exactly K servers, the i-th with URL
\* '<i-th scheme>://<host><basePath, or "/" when absent>', in declared order,
\* duplicates kept.
C11_ServerSynthesis ==
    pc = "servers_done" =>
        IF value.host = None \/ value.schemes = None
        THEN openapi = None
        ELSE LET schemes == Unwrap(value.schemes)
                 host == Unwrap(value.host)
                 servers == Unwrap(openapi)
             IN  /\ IsSome(openapi)
                 /\ Len(servers) = Len(schemes)
                 /\ \A i \in 1..Len(schemes) :
                       LET url == servers[i].url
                       IN  /\ url[1] = SchemeText(schemes[i])
                           /\ url[2] = "://"
                           /\ SubSeq(url, 3, 2 + Len(host)) = host
                           /\ SubSeq(url, 3 + Len(host), Len(url)) =
                                 (IF value.base_path = None THEN <<Slash>>
                                  ELSE Unwrap(value.base_path))

\* C11 witness: two equal schemes, a host and no base path gave two servers.
C11_Witness ==
    /\ pc = "servers_done"
    /\ IsSome(value.schemes)
    /\ Len(Unwrap(value.schemes)) = 2
    /\ Unwrap(value.schemes)[1] = Unwrap(value.schemes)[2]
    /\ value.base_path = None
    /\ IsSome(openapi)
    /\ Len(Unwrap(openapi)) = 2

(***************************************************************************)
(* Security schemes (src/src/spec/security.rs).  A BTreeMap is the set of  *)
(* its <<key, value>> entries, keys being unique.                          *)
(***************************************************************************)
\* the match of into_openapi_flow, as a bug would have it
OpenApiFlowKindPasswordForApplication(flow) ==
    CASE flow = "implicit" -> "Implicit"
      [] flow = "password" -> "Password"
      [] flow = "application" -> "Password"
      [] flow = "accessCode" -> "AuthorizationCode"

\* match self { Flow::Implicit {..} => OpenApiFlow::Implicit(..), ... }
OpenApiFlowKind(flow) ==
    CASE flow = "implicit" -> "Implicit"
      [] flow = "password" -> "Password"
      [] flow = "application" -> "ClientCredentials"
      [] flow = "accessCode" -> "AuthorizationCode"

\* scopes.unwrap_or_default().into_iter().collect()
OpenApiScopes(scopes) == IF IsSome(scopes) THEN Unwrap(scopes) ELSE {}

\* fn into_openapi_flow(self, scopes) -> openapi::security::Flow
into_openapi_flow(flow, scopes) ==
    [kind |-> OpenApiFlowKind(flow.flow),
     authorization_url |-> flow.authorization_url,
     token_url |-> flow.token_url,
     scopes |-> OpenApiScopes(scopes)]

\* impl From<Oauth2> for openapi::security::OAuth2
FromOauth2(oauth) ==
    [flows |-> {into_openapi_flow(oauth.flow, oauth.scopes)},
     description |-> oauth.description]

\* impl From<SecurityScheme> for openapi::security::SecurityScheme
FromSecurityScheme(scheme) ==
    [type |-> "OAuth2", oauth2 |-> FromOauth2(scheme.oauth2)]

Urls == {<<"https", "://", "a.example", Slash, "auth">>,
         <<"https", "://", "b.example", Slash, "token">>}

\* enum Flow: each variant with the URL fields it requires
Flows ==
    {[flow |-> "implicit", authorization_url |-> Some(u), token_url |-> None] :
        u \in Urls}
    \cup {[flow |-> k, authorization_url |-> None, token_url |-> Some(u)] :
            k \in {"password", "application"}, u \in Urls}
    \cup {[flow |-> "accessCode", authorization_url |-> Some(u),
           token_url |-> Some(w)] : u, w \in Urls}

ScopeNames == {"read", "write"}
ScopeTexts == {"read things", "change things"}

\* the maps from a set of keys K to values from V, as entry sets
MapsOver(K, V) ==
    UNION {{ {<<k, f[k]>> : k \in D} : f \in [D -> V]} : D \in SUBSET K}

ScopeMaps == MapsOver(ScopeNames, ScopeTexts)

Oauth2s ==
    [description : {None, Some("login")},
     flow : Flows,
     scopes : {None} \cup {Some(m) : m \in ScopeMaps}]

SecuritySchemes == {[type |-> "oauth2", oauth2 |-> o] : o \in Oauth2s}

InitSecurity ==
    /\ pc = "security"
    /\ value \in SecuritySchemes
    /\ openapi = <<>>
    /\ swagger = <<>>
    /\ IdleExtensions /\ IdleWalk /\ IdleCli
    /\ IdleEarly

\* .map(|(k, v)| (k, v.into())), for one entry of security_definitions
ConvertSecurityScheme ==
    /\ pc = "security"
    /\ openapi' = FromSecurityScheme(value)
    /\ pc' = "security_done"
    /\ UNCHANGED <<value, swagger, extension_map, todo, conversions,
                   files, args, stdout, earlyVars>>

NextSecurity == ConvertSecurityScheme

SpecSecurity == InitSecurity /\ [][NextSecurity]_vars

ExpectedFlowKind ==
    [implicit |-> "Implicit", password |-> "Password",
     application |-> "ClientCredentials", accessCode |-> "AuthorizationCode"]

\* C12: a source OAuth2 scheme converts to a target OAuth2 scheme with
\* exactly one flow, of the kind that corresponds 1:1 to the source kind,
\* with the same URL(s); its scope set is the source scope mapping, empty
\* when the source has no scopes.
C12_SecuritySchemeMapping ==
    pc = "security_done" =>
        /\ openapi.type = "OAuth2"
        /\ Cardinality(openapi.oauth2.flows) = 1
        /\ \A f \in openapi.oauth2.flows :
              /\ f.kind = ExpectedFlowKind[value.oauth2.flow.flow]
              /\ f.authorization_url = value.oauth2.flow.authorization_url
              /\ f.token_url = value.oauth2.flow.token_url
              /\ f.scopes = (IF value.oauth2.scopes = None THEN {}
                             ELSE Unwrap(value.oauth2.scopes))

\* C12 witness: an application flow with two scopes has been converted.
C12_Witness ==
    /\ pc = "security_done"
    /\ value.oauth2.flow.flow = "application"
    /\ IsSome(value.oauth2.scopes)
    /\ Cardinality(Unwrap(value.oauth2.scopes)) = 2
    /\ \E f \in openapi.oauth2.flows : Cardinality(f.scopes) = 2

\* C12 witness of the default: a scheme without scopes has been converted.
C12_WitnessNoScopes ==
    /\ pc = "security_done"
    /\ value.oauth2.scopes = None
    /\ \E f \in openapi.oauth2.flows : f.scopes = {}

(***************************************************************************)
(* Vendor extensions (src/src/spec/mod.rs).  A key is a string; the atom   *)
(* "x-" is the reserved prefix, and no other atom begins with it.          *)
(***************************************************************************)
XPrefix == "x-"
XNullable == <<XPrefix, "nullable">>

\* k.starts_with("x-")
StartsWithXPrefix(k) == Len(k) >= 1 /\ k[1] = XPrefix

\* impl Deserialize for Extensions: .filter(|(k, _)| k.starts_with("x-"))
DeserializeExtensions(map) == {e \in map : StartsWithXPrefix(e[1])}

\* impl From<Extensions> for utoipa::openapi::extensions::Extensions
FromExtensions(self) == {<<e[1], e[2]>> : e \in self}

\* self.0.remove("x-nullable"), as a bug would have it: nothing is removed
KeepXNullable(self) == self

\* self.0.remove("x-nullable")
RemoveXNullable(self) == {e \in self : e[1] # XNullable}

\* into_openapi_extensions, as a bug would have it: the emptiness test
\* comes after the removal
NoneWhenNothingIsLeft(self) ==
    IF RemoveXNullable(self) = {} THEN None
    ELSE Some(FromExtensions(RemoveXNullable(self)))

\* Extensions::into_openapi_extensions
into_openapi_extensions(self) ==
    IF self = {} THEN None
    ELSE Some(FromExtensions(RemoveXNullable(self)))

(***************************************************************************)
(* Responses (src/src/spec/response.rs)                                    *)
(***************************************************************************)
JsonContent == <<"application", Slash, "json">>

\* impl From<ParameterHeader> for openapi::header::Header
FromParameterHeader(h) ==
    LET schema == ConvertGeneric(h.parameter)
    IN  IF schema.ok
        THEN Ok([description |-> Some(h.description),
                 schema |-> RefOrT(Unwrap(schema.v))])
        ELSE Panic

\* the examples closure, as a bug would have it: the value is not set
FromExamplesWithoutValue(examples) ==
    {<<e[1], RefOrT([value |-> None])>> : e \in examples}

\* examples.into_iter().map(|(k, v)| { example.value = Some(v); (k, T(example)) })
FromExamples(examples) == {<<e[1], RefOrT([value |-> Some(e[2])])>> : e \in examples}

\* impl From<Response> for openapi::Response
FromResponse(r) ==
    LET content ==
            [schema |-> IF IsSome(r.schema)
                        THEN Some(into_openapi_ref(Unwrap(r.schema)))
                        ELSE None,
             examples |-> IF IsSome(r.examples)
                          THEN FromExamples(Unwrap(r.examples))
                          ELSE {}]
        headers == IF IsSome(r.headers) THEN Unwrap(r.headers) ELSE {}
    IN  IF \E h \in headers : ~FromParameterHeader(h[2]).ok
        THEN Panic
        ELSE Ok([description |-> r.description,
                 content |-> {<<JsonContent, content>>},
                 extensions |-> IF IsSome(r.extensions)
                                THEN Some(FromExtensions(Unwrap(r.extensions)))
                                ELSE None,
                 headers |-> {<<h[1], Unwrap(FromParameterHeader(h[2]).v)>> :
                                 h \in headers}])

\* RefOr<Response>::into_openapi_ref
into_openapi_ref_response(r) ==
    IF r.k = "Ref" THEN Ok(RefOrRef(openapi_ref_location(r.ref)))
    ELSE LET t == FromResponse(Unwrap(r.v))
         IN  IF t.ok THEN Ok(RefOrT(Unwrap(t.v))) ELSE Panic

\* impl From<Responses> for openapi::Responses: value.responses alone feeds
\* responses_from_iter; value.default and value.extensions are not read.
FromResponses(responses) ==
    IF \E e \in responses.responses : ~into_openapi_ref_response(e[2]).ok
    THEN Panic
    ELSE Ok({<<e[1], Unwrap(into_openapi_ref_response(e[2]).v)>> :
                e \in responses.responses})

ParsedSchemas ==
    {Unwrap(DeserializeRefOr(n).v) :
        n \in {RefNode, StringNode,
               [EmptyNode EXCEPT !.type = OneType("array"),
                                 !.items = OneNode(RefNode)]}}

ExampleMaps ==
    {{}, {<<JsonContent, "ex1">>},
     {<<JsonContent, "ex1">>, <<<<"text", Slash, "plain">>, "ex2">>}}

HeaderMaps ==
    {{<<"X-Rate-Limit", [description |-> "calls", parameter |-> StringGeneric]>>},
     {<<"X-Tags", [description |-> "tags", parameter |-> ArrayWithoutItems]>>}}

ExtensionMaps == {{<<XNullable, "true">>, <<<<XPrefix, "internal">>, "1">>}}

InlineResponses ==
    [description : {"ok"},
     schema : {None} \cup {Some(s) : s \in ParsedSchemas},
     headers : {None} \cup {Some(h) : h \in HeaderMaps},
     examples : {None} \cup {Some(x) : x \in ExampleMaps},
     extensions : {None} \cup {Some(x) : x \in ExtensionMaps}]

ResponsePointer == Pointer(<<"responses", "NotFound">>)

RefOrResponses ==
    {RefOrRef(ResponsePointer)} \cup {RefOrT(r) : r \in InlineResponses}

\* responses met in the collections: a reference, and inline responses
\* with and without schema, examples and headers
CollectedResponses ==
    {RefOrRef(ResponsePointer)} \cup
    {RefOrT(r) : r \in {q \in InlineResponses :
                           /\ q.extensions = None
                           /\ IsSome(q.schema) => q.schema = Some(RefOrRef(PetPointer))
                           /\ IsSome(q.examples) => Cardinality(Unwrap(q.examples)) = 1}}

StatusCodes == {"200", "404"}

ResponsesValues ==
    [responses : MapsOver(StatusCodes, CollectedResponses),
     default : {None} \cup {Some(r) : r \in {RefOrRef(ResponsePointer),
                                             RefOrT(CHOOSE q \in InlineResponses :
                                                       /\ q.schema = None
                                                       /\ q.headers = None
                                                       /\ q.examples = None
                                                       /\ q.extensions = None)}},
     extensions : {None}]

InitResponses ==
    /\ pc = "responses"
    /\ value \in ResponsesValues
    /\ openapi = <<>>
    /\ swagger = <<>>
    /\ IdleExtensions /\ IdleWalk /\ IdleCli
    /\ IdleEarly

\* impl From<Responses> for openapi::Responses
ConvertResponses ==
    /\ pc = "responses"
    /\ LET r == FromResponses(value)
       IN  IF r.ok
           THEN openapi' = Unwrap(r.v) /\ pc' = "responses_done"
           ELSE openapi' = openapi /\ pc' = "panicked"
    /\ UNCHANGED <<value, swagger, extension_map, todo, conversions,
                   files, args, stdout, earlyVars>>

NextResponses == ConvertResponses

SpecResponses == InitResponses /\ [][NextResponses]_vars

InitResponse ==
    /\ pc = "response"
    /\ value \in RefOrResponses
    /\ openapi = <<>>
    /\ swagger = <<>>
    /\ IdleExtensions /\ IdleWalk /\ IdleCli
    /\ IdleEarly

\* .map(|(k, v)| (k, v.into_openapi_ref())), for one entry
ConvertResponse ==
    /\ pc = "response"
    /\ LET r == into_openapi_ref_response(value)
       IN  IF r.ok
           THEN openapi' = Unwrap(r.v) /\ pc' = "response_done"
           ELSE openapi' = openapi /\ pc' = "panicked"
    /\ UNCHANGED <<value, swagger, extension_map, todo, conversions,
                   files, args, stdout, earlyVars>>

NextResponse == ConvertResponse

SpecResponse == InitResponse /\ [][NextResponse]_vars

Keys(map) == {e[1] : e \in map}
EntryOf(map, k) == (CHOOSE e \in map : e[1] = k)[2]

\* C13: the target responses hold one converted entry per status-code key of
\* the source and, when the source has a 'default' entry, a converted
\* 'default' entry as well; no source entry is lost.
C13_EveryEntryKept ==
    pc = "responses_done" =>
        /\ Keys(openapi) =
              Keys(value.responses)
                 \cup (IF IsSome(value.default) THEN {"default"} ELSE {})
        /\ \A k \in Keys(value.responses) :
              Ok(EntryOf(openapi, k)) =
                  into_openapi_ref_response(EntryOf(value.responses, k))
        /\ IsSome(value.default) =>
              Ok(EntryOf(openapi, "default")) =
                  into_openapi_ref_response(Unwrap(value.default))

\* What the code does keep: the status-code entries.
C13_StatusCodeEntriesKept ==
    pc = "responses_done" =>
        /\ Keys(openapi) = Keys(value.responses)
        /\ \A k \in Keys(value.responses) :
              Ok(EntryOf(openapi, k)) =
                  into_openapi_ref_response(EntryOf(value.responses, k))

\* C14: an inline response converts to a target response with exactly one
\* content entry, keyed 'application/json', whose schema is the converted
\* source schema (absent when the source has none) and whose examples are
\* the source's named examples, same names and values (none otherwise).
C14_SingleJsonContent ==
    (pc = "response_done" /\ value.k = "T") =>
        LET source == Unwrap(value.v)
            target == Unwrap(openapi.v)
        IN  /\ openapi.k = "T"
            /\ Cardinality(target.content) = 1
            /\ \A c \in target.content :
                  /\ c[1] = JsonContent
                  /\ c[2].schema =
                        (IF source.schema = None THEN None
                         ELSE Some(into_openapi_ref(Unwrap(source.schema))))
                  /\ Keys(c[2].examples) =
                        (IF source.examples = None THEN {}
                         ELSE Keys(Unwrap(source.examples)))
                  /\ \A x \in c[2].examples :
                        /\ x[2].k = "T"
                        /\ Unwrap(x[2].v).value =
                              Some(EntryOf(Unwrap(source.examples), x[1]))

\* C14 witness: a response with neither schema nor examples has been
\* converted.
C14_Witness ==
    /\ pc = "response_done"
    /\ value.k = "T"
    /\ Unwrap(value.v).schema = None
    /\ Unwrap(value.v).examples = None
    /\ Cardinality(Unwrap(openapi.v).content) = 1

\* C14, the populated case: a schema and two named examples were converted.
C14_WitnessPopulated ==
    /\ pc = "response_done"
    /\ value.k = "T"
    /\ IsSome(Unwrap(value.v).schema)
    /\ IsSome(Unwrap(value.v).examples)
    /\ Cardinality(Unwrap(Unwrap(value.v).examples)) = 2
    /\ \E c \in Unwrap(openapi.v).content : Cardinality(c[2].examples) = 2

(***************************************************************************)
(* Path items (src/src/spec/path.rs): impl From<PathItem>                  *)
(***************************************************************************)
\* for param in params { match param.parameter_in { ... } }: the loop of
\* From<Operation> over the parameters that are left
RECURSIVE ParameterLoop(_, _, _)
ParameterLoop(params, out, request_body) ==
    IF params = <<>>
    THEN Ok([parameters |-> Some(out), request_body |-> request_body])
    ELSE LET p == Head(params)
         IN  CASE p.in = "formData" ->
                    LET schema == ConvertGeneric(Unwrap(p.generic))
                    IN  IF schema.ok
                        THEN ParameterLoop(Tail(params), out,
                                 AssignRequestBody(request_body,
                                     FormDataRequestBody(p, Unwrap(schema.v))))
                        ELSE Panic
               [] p.in = "body" ->
                    ParameterLoop(Tail(params), out,
                        AssignRequestBody(request_body, BodyRequestBody(p)))
               [] OTHER ->
                    LET r == TryFromParameter(p)
                    IN  CASE r.status = "ok" ->
                                ParameterLoop(Tail(params),
                                              Append(out, Unwrap(r.v)),
                                              request_body)
                          [] r.status = "err" ->
                                ParameterLoop(Tail(params), out, request_body)
                          [] r.status = "panic" -> Panic

\* impl From<Operation> for openapi::path::Operation
FromOperation(op) ==
    IF IsSome(op.parameters)
    THEN ParameterLoop(Unwrap(op.parameters), <<>>, None)
    ELSE Ok([parameters |-> None, request_body |-> None])

\* filter_map, as a bug would have it: a rejected parameter ends the list
RECURSIVE TakeWhileTryInto(_)
TakeWhileTryInto(params) ==
    IF params = <<>> THEN Ok(<<>>)
    ELSE LET r == TryFromParameter(Head(params))
         IN  CASE r.status = "panic" -> Panic
               [] r.status = "err" -> Ok(<<>>)
               [] r.status = "ok" ->
                    LET rest == TakeWhileTryInto(Tail(params))
                    IN  IF rest.ok THEN Ok(<<Unwrap(r.v)>> \o Unwrap(rest.v))
                        ELSE Panic

\* p.into_iter().filter_map(|p| p.try_into().ok()).collect()
RECURSIVE FilterMapTryInto(_)
FilterMapTryInto(params) ==
    IF params = <<>> THEN Ok(<<>>)
    ELSE LET r == TryFromParameter(Head(params))
             rest == FilterMapTryInto(Tail(params))
         IN  CASE r.status = "panic" -> Panic
               [] ~rest.ok -> Panic
               [] r.status = "ok" -> Ok(<<Unwrap(r.v)>> \o Unwrap(rest.v))
               [] r.status = "err" -> rest

Verbs == {"get", "put", "post", "delete", "options", "head", "patch", "trace"}

\* value.get.map(Into::into), and the same for the other seven slots
MapInto(slot) ==
    IF IsSome(slot) THEN Some(Unwrap(FromOperation(Unwrap(slot)).v)) ELSE None

\* impl From<PathItem> for openapi::PathItem
FromPathItem(item) ==
    LET openapi_parameters ==
            IF IsSome(item.parameters)
            THEN FilterMapTryInto(Unwrap(item.parameters))
            ELSE Ok(<<>>)
    IN  IF \/ ~openapi_parameters.ok
           \/ \E verb \in Verbs :
                 IsSome(item[verb]) /\ ~FromOperation(Unwrap(item[verb])).ok
        THEN Panic
        ELSE Ok([parameters |-> IF IsSome(item.parameters)
                                THEN Some(Unwrap(openapi_parameters.v))
                                ELSE None,
                 get |-> MapInto(item.get),
                 put |-> MapInto(item.put),
                 post |-> MapInto(item.post),
                 delete |-> MapInto(item.delete),
                 options |-> MapInto(item.options),
                 head |-> MapInto(item.head),
                 patch |-> MapInto(item.patch),
                 trace |-> MapInto(item.trace)])

MaxShared == 2

Parameter(name, required, shape) ==
    [name |-> name, description |-> None, required |-> required,
     in |-> shape.in, generic |-> shape.generic, schema |-> shape.schema]

\* the parameters of a path item's shared list
SharedParameters ==
    {Parameter("id", "true",
               [in |-> "path", generic |-> Some(StringGeneric), schema |-> None]),
     Parameter("q", "absent",
               [in |-> "query", generic |-> Some(ArrayOfStrings), schema |-> None]),
     Parameter("ids", "false",
               [in |-> "query", generic |-> Some(ArrayWithoutItems), schema |-> None]),
     Parameter("token", "true",
               [in |-> "header", generic |-> Some(NullableInteger), schema |-> None]),
     Parameter("file", "true",
               [in |-> "formData", generic |-> Some(StringGeneric), schema |-> None]),
     Parameter("pet", "true",
               [in |-> "body", generic |-> None, schema |-> Some(RefOrRef(PetPointer))])}

\* the operation each verb slot holds when present: without a parameter
\* list, with query, form and body parameters of its own, and one whose
\* conversion panics
OperationOf(verb) ==
    [parameters |->
        CASE verb = "get" ->
                Some(<<Parameter("limit", "false",
                          [in |-> "query", generic |-> Some(NullableInteger),
                           schema |-> None])>>)
          [] verb = "post" ->
                Some(<<Parameter("upload", "true",
                          [in |-> "formData", generic |-> Some(StringGeneric),
                           schema |-> None])>>)
          [] verb = "put" ->
                Some(<<Parameter("body", "true",
                          [in |-> "body", generic |-> None,
                           schema |-> Some(RefOrRef(PetPointer))])>>)
          [] verb = "trace" ->
                Some(<<Parameter("hops", "false",
                          [in |-> "query", generic |-> Some(ArrayWithoutItems),
                           schema |-> None])>>)
          [] OTHER -> None]

PathItems ==
    {[parameters |-> ps,
      get |-> IF "get" \in present THEN Some(OperationOf("get")) ELSE None,
      put |-> IF "put" \in present THEN Some(OperationOf("put")) ELSE None,
      post |-> IF "post" \in present THEN Some(OperationOf("post")) ELSE None,
      delete |-> IF "delete" \in present THEN Some(OperationOf("delete")) ELSE None,
      options |-> IF "options" \in present THEN Some(OperationOf("options")) ELSE None,
      head |-> IF "head" \in present THEN Some(OperationOf("head")) ELSE None,
      patch |-> IF "patch" \in present THEN Some(OperationOf("patch")) ELSE None,
      trace |-> IF "trace" \in present THEN Some(OperationOf("trace")) ELSE None] :
        ps \in {None} \cup {Some(q) : q \in SeqsUpTo(SharedParameters, MaxShared)},
        present \in SUBSET Verbs}

InitPathItem ==
    /\ pc = "path_item"
    /\ value \in PathItems
    /\ openapi = <<>>
    /\ swagger = <<>>
    /\ IdleExtensions /\ IdleWalk /\ IdleCli
    /\ IdleEarly

\* .map(|(k, v)| (k, v.into())), for one entry of Paths
ConvertPathItem ==
    /\ pc = "path_item"
    /\ LET r == FromPathItem(value)
       IN  IF r.ok
           THEN openapi' = Unwrap(r.v) /\ pc' = "path_item_done"
           ELSE openapi' = openapi /\ pc' = "panicked"
    /\ UNCHANGED <<value, swagger, extension_map, todo, conversions,
                   files, args, stdout, earlyVars>>

NextPathItem == ConvertPathItem

SpecPathItem == InitPathItem /\ [][NextPathItem]_vars

\* the request body an operation's own parameter list gives it
RECURSIVE OwnPayloads(_)
OwnPayloads(params) ==
    IF params = <<>> THEN <<>>
    ELSE (IF IsPayload(Head(params)) THEN <<Head(params)>> ELSE <<>>)
            \o OwnPayloads(Tail(params))

\* C20: a FormData or Body parameter of a path item's shared list is
\* dropped and gives no request body to the path item or to any of its
\* operations; the shared Query/Header/Path parameters are kept, in source
\* order; each of the eight verb slots is present in the output iff it is
\* present in the source.
C20_SharedParameters ==
    pc = "path_item_done" =>
        /\ DOMAIN openapi =
              {"parameters"} \cup Verbs      \* no request body on the item
        /\ IsSome(openapi.parameters) <=> IsSome(value.parameters)
        /\ IsSome(value.parameters) =>
              LET expected == SelectSeq(Unwrap(value.parameters), IsLocated)
                  out == Unwrap(openapi.parameters)
              IN  /\ Len(out) = Len(expected)
                  /\ \A j \in 1..Len(expected) :
                        /\ out[j].name = expected[j].name
                        /\ out[j].parameter_in = ExpectedLocation(expected[j])
                        /\ out[j].required = ExpectedRequired(expected[j])
        /\ \A verb \in Verbs :
              /\ IsSome(openapi[verb]) <=> IsSome(value[verb])
              /\ IsSome(value[verb]) =>
                    LET own == Unwrap(value[verb]).parameters
                        body == Unwrap(openapi[verb]).request_body
                    IN  IsSome(body) <=>
                            (IsSome(own) /\ OwnPayloads(Unwrap(own)) # <<>>)

\* C20 witness: a shared list of a FormData/Body parameter followed by a
\* located one was converted, for an item with a 'get' operation that has
\* no payload parameter of its own.
C20_Witness ==
    /\ pc = "path_item_done"
    /\ IsSome(value.parameters)
    /\ Len(Unwrap(value.parameters)) = 2
    /\ IsPayload(Unwrap(value.parameters)[1])
    /\ IsLocated(Unwrap(value.parameters)[2])
    /\ Len(Unwrap(openapi.parameters)) = 1
    /\ IsSome(value.get) /\ value.post = None /\ value.put = None
    /\ Unwrap(openapi.get).request_body = None

(***************************************************************************)
(* Document assembly (src/src/spec/mod.rs): impl From<Swagger>             *)
(***************************************************************************)
\* impl From<Definitions> for BTreeMap<String, RefOr<Schema>>
FromDefinitions(definitions) ==
    {<<e[1], into_openapi_ref(e[2])>> : e \in definitions}

\* impl From<Paths> for openapi::Paths
FromPaths(paths) ==
    IF \E e \in paths.paths : ~FromPathItem(e[2]).ok
    THEN Panic
    ELSE Ok([extensions |-> into_openapi_extensions(paths.extensions),
             paths |-> {<<e[1], Unwrap(FromPathItem(e[2]).v)>> :
                           e \in paths.paths}])

\* swagger.security_definitions.into_iter().map(|(k, v)| (k, v.into()))
FromSecurityDefinitions(security_definitions) ==
    {<<e[1], FromSecurityScheme(e[2])>> : e \in security_definitions}

\* impl From<Swagger> for openapi::OpenApi.  The builder is given info,
\* paths, servers, components, security and external_docs; nothing else of
\* the target document is set.
FromSwagger(doc) ==
    LET responses == IF IsSome(doc.responses)
                     THEN FromResponses(Unwrap(doc.responses))
                     ELSE Ok({})
        schemas == IF IsSome(doc.definitions)
                   THEN FromDefinitions(Unwrap(doc.definitions))
                   ELSE {}
        security_schemes == FromSecurityDefinitions(doc.security_definitions)
        servers == openapi_servers_from_host(doc.schemes, doc.host,
                                             doc.base_path)
        paths == FromPaths(doc.paths)
    IN  IF ~responses.ok \/ ~paths.ok
        THEN Panic
        ELSE Ok([info |-> doc.info,
                 paths |-> Unwrap(paths.v),
                 servers |-> servers,
                 components |->
                    Some([schemas |-> schemas,
                          responses |-> Unwrap(responses.v),
                          security_schemes |-> security_schemes]),
                 security |-> doc.security,
                 tags |-> None,
                 external_docs |-> doc.external_docs])

Infos == {[title |-> "Petstore", version |-> "1.0.0"],
          [title |-> "Orders", version |-> "2"]}
TagLists == {None, Some(<<[name |-> "pet"], [name |-> "store"]>>)}
ExternalDocsValues == {None, Some([url |-> <<"https", "://", "docs.example">>])}
SecurityRequirements == {None, Some(<<{<<"petstore_auth", <<"read">>>>}>>)}

DefinitionMaps ==
    {None, Some({}),
     Some({<<"A", RefOrRef(Pointer(<<"definitions", "B">>))>>,
           <<"B", RefOrRef(Pointer(<<"definitions", "A">>))>>}),
     Some({<<"Pet", Unwrap(DeserializeRefOr(StringNode).v)>>,
           <<"definitions", Unwrap(DeserializeRefOr(ObjectNode).v)>>})}

PlainResponse ==
    [description |-> "ok", schema |-> None, headers |-> None,
     examples |-> None, extensions |-> None]

\* the document's shared responses, deserialized as struct Responses: a
\* response named 'default' is held by the field `default`
SharedResponses ==
    {None,
     Some([responses |-> {<<"NotFound", RefOrT(PlainResponse)>>},
           default |-> None, extensions |-> None]),
     Some([responses |-> {<<"NotFound", RefOrT(PlainResponse)>>},
           default |-> Some(RefOrT(PlainResponse)), extensions |-> None])}

OneSecurityScheme ==
    [type |-> "oauth2",
     oauth2 |-> [description |-> None,
                 flow |-> [flow |-> "implicit",
                           authorization_url |->
                               Some(<<"https", "://", "a.example", Slash, "auth">>),
                           token_url |-> None],
                 scopes |-> Some({<<"read", "read things">>})]]

SecurityDefinitionMaps ==
    {{}, {<<"petstore_auth", OneSecurityScheme>>},
     {<<"petstore_auth", OneSecurityScheme>>, <<"admin", OneSecurityScheme>>}}

EmptyPathItem ==
    [parameters |-> None, get |-> None, put |-> None, post |-> None,
     delete |-> None, options |-> None, head |-> None, patch |-> None,
     trace |-> None]

PathsValues ==
    {[paths |-> {}, extensions |-> {}],
     [paths |-> {<<<<Slash, "pets">>,
                   [EmptyPathItem EXCEPT !.post = Some(OperationOf("post"))]>>},
      extensions |-> {}],
     [paths |-> {<<<<Slash, "pets">>,
                   [EmptyPathItem EXCEPT !.trace = Some(OperationOf("trace"))]>>},
      extensions |-> {<<<<XPrefix, "internal">>, "1">>}]}

Swaggers ==
    {[info |-> i, host |-> s.host, base_path |-> s.base_path,
      schemes |-> s.schemes, consumes |-> None,
      produces |-> Some(<<<<"application", Slash, "xml">>>>),
      paths |-> p, definitions |-> d, responses |-> r,
      security_definitions |-> sd, security |-> sr, tags |-> t,
      external_docs |-> e] :
        i \in Infos, t \in TagLists, e \in ExternalDocsValues,
        sr \in SecurityRequirements, d \in DefinitionMaps,
        r \in SharedResponses, sd \in SecurityDefinitionMaps,
        p \in PathsValues,
        s \in {[schemes |-> None, host |-> None, base_path |-> None],
               [schemes |-> Some(<<"Https", "Http">>),
                host |-> Some(<<"example.com">>),
                base_path |-> Some(<<Slash, "v1">>)]}}

InitSwagger ==
    /\ pc = "swagger"
    /\ swagger \in Swaggers
    /\ openapi = <<>>
    /\ value = <<>>
    /\ IdleExtensions /\ IdleWalk /\ IdleCli
    /\ IdleEarly

\* let openapi: OpenApi = swagger.into();
ConvertSwagger ==
    /\ pc = "swagger"
    /\ LET r == FromSwagger(swagger)
       IN  IF r.ok
           THEN openapi' = Unwrap(r.v) /\ pc' = "swagger_done"
           ELSE openapi' = openapi /\ pc' = "panicked"
    /\ UNCHANGED <<swagger, value, extension_map, todo, conversions,
                   files, args, stdout, earlyVars>>

NextSwagger == ConvertSwagger

SpecSwagger == InitSwagger /\ [][NextSwagger]_vars

\* C15: the target document's info, tags, externalDocs and top-level
\* security requirements equal the source document's (present iff present
\* in the source).
C15_CopiedThrough ==
    pc = "swagger_done" =>
        /\ openapi.info = swagger.info
        /\ openapi.tags = swagger.tags
        /\ openapi.external_docs = swagger.external_docs
        /\ openapi.security = swagger.security

\* What the code does copy: info, externalDocs and security.
C15_CopiedExceptTags ==
    pc = "swagger_done" =>
        /\ openapi.info = swagger.info
        /\ openapi.external_docs = swagger.external_docs
        /\ openapi.security = swagger.security

\* the names of the source's shared responses section
SharedResponseNames ==
    IF swagger.responses = None THEN {}
    ELSE Keys(Unwrap(swagger.responses).responses)
            \cup (IF IsSome(Unwrap(swagger.responses).default)
                  THEN {"default"} ELSE {})

SchemasKeepNames ==
    LET source == IF swagger.definitions = None THEN {}
                  ELSE Unwrap(swagger.definitions)
        target == Unwrap(openapi.components).schemas
    IN  /\ Keys(target) = Keys(source)
        /\ \A k \in Keys(source) :
              EntryOf(target, k) = into_openapi_ref(EntryOf(source, k))

SecuritySchemesKeepNames ==
    LET target == Unwrap(openapi.components).security_schemes
    IN  /\ Keys(target) = Keys(swagger.security_definitions)
        /\ \A k \in Keys(target) :
              EntryOf(target, k) =
                  FromSecurityScheme(EntryOf(swagger.security_definitions, k))

\* C16: the key sets of components/schemas, components/responses and
\* components/securitySchemes equal those of the source definitions, shared
\* responses and securityDefinitions, each value being the conversion of
\* the value under the same key; an absent section yields an empty mapping,
\* and the components object is always present.
C16_NamesPreserved ==
    pc = "swagger_done" =>
        /\ IsSome(openapi.components)
        /\ SchemasKeepNames
        /\ SecuritySchemesKeepNames
        /\ Keys(Unwrap(openapi.components).responses) = SharedResponseNames

\* What the code does preserve: schemas, security schemes, and the shared
\* responses that are not named 'default'.
C16_NamesPreservedExceptDefault ==
    pc = "swagger_done" =>
        /\ IsSome(openapi.components)
        /\ SchemasKeepNames
        /\ SecuritySchemesKeepNames
        /\ Keys(Unwrap(openapi.components).responses) =
              SharedResponseNames \ {"default"}

(***************************************************************************)
(* The command line program (src/src/bin/swagger-convert.rs)               *)
(*                                                                         *)
(* files maps every path to NoFile or to the content of the file there.    *)
(* A content is "swagger" (a document that parses and converts),           *)
(* "swagger_items" (one that parses and whose conversion panics),          *)
(* "text" (no Swagger document), "" (an empty file), "openapi" (the        *)
(* pretty-printed target document) or "openapi_cut" (a prefix of it).      *)
(***************************************************************************)
NoFile == "no file"
PathNames == {"swagger.json", "openapi.json"}
Contents == {"swagger", "swagger_items", "text"}
FileSystems == [PathNames -> Contents \cup {NoFile}]

\* clap: the positional `swagger` is optional, `--out` has a default
CommandLines ==
    [accepted : BOOLEAN,        \* try_get_matches returns Ok
     swagger : {None} \cup {Some(p) : p \in PathNames},
     out : PathNames]

\* File::options().create(true).truncate(true), as a bug would have it
CreateTruncate(fs, path) == Ok([fs EXCEPT ![path] = ""])

\* File::options().create_new(true).write(true).open(openapi_path)
CreateNew(fs, path) ==
    IF fs[path] = NoFile THEN Ok([fs EXCEPT ![path] = ""]) ELSE Err

\* serde_json::from_reader::<Swagger>
FromReader(content) ==
    IF content \in {"swagger", "swagger_items"} THEN Ok(content) ELSE Err

InitCli ==
    /\ pc = "try_get_matches"
    /\ args \in CommandLines
    /\ files \in FileSystems
    /\ stdout = <<>>
    /\ swagger = <<>>
    /\ openapi = <<>>
    /\ value = <<>>
    /\ IdleExtensions /\ IdleWalk
    /\ IdleEarly

cliFrame == <<value, extension_map, todo, conversions, earlyVars>>

\* if let Err(err) = parse_args(cmd) { println!("{help}\nerror: {err:#}") }
ReportError(cause) ==
    /\ stdout' = stdout \o <<"help", "error: failed to parse arguments", cause>>
    /\ pc' = "exit_error"

\* let matches = cmd.try_get_matches()?; ... .ok_or_else(missing swagger path)?
GetMatches ==
    /\ pc = "try_get_matches"
    /\ IF ~args.accepted THEN ReportError("usage")
       ELSE IF ~IsSome(args.swagger) THEN ReportError("missing swagger path")
       ELSE pc' = "open" /\ stdout' = stdout
    /\ UNCHANGED <<files, args, swagger, openapi, cliFrame>>

\* let file = File::open(swagger_path)?;
OpenSwagger ==
    /\ pc = "open"
    /\ IF files[Unwrap(args.swagger)] = NoFile
       THEN ReportError("not found")
       ELSE pc' = "from_reader" /\ stdout' = stdout
    /\ UNCHANGED <<files, args, swagger, openapi, cliFrame>>

\* let swagger: Swagger = serde_json::from_reader(&mut buf)?;
ReadSwagger ==
    /\ pc = "from_reader"
    /\ LET r == FromReader(files[Unwrap(args.swagger)])
       IN  IF r.ok
           THEN swagger' = r.v /\ pc' = "into" /\ stdout' = stdout
           ELSE swagger' = swagger /\ ReportError("invalid document")
    /\ UNCHANGED <<files, args, openapi, cliFrame>>

\* let openapi: OpenApi = swagger.into();
\* println!("Writing OpenAPI file to {openapi_path:?}");
IntoOpenApi ==
    /\ pc = "into"
    /\ IF Unwrap(swagger) = "swagger_items"
       THEN pc' = "panicked" /\ UNCHANGED <<openapi, stdout>>
       ELSE /\ openapi' = Some("openapi")
            /\ stdout' = Append(stdout, "Writing OpenAPI file")
            /\ pc' = "create_new"
    /\ UNCHANGED <<files, args, swagger, cliFrame>>

\* let out_file = File::options().create_new(true).write(true).open(..)?;
CreateOutput ==
    /\ pc = "create_new"
    /\ LET r == CreateNew(files, args.out)
       IN  IF r.ok
           THEN files' = Unwrap(r.v) /\ pc' = "to_writer" /\ stdout' = stdout
           ELSE files' = files /\ ReportError("file exists")
    /\ UNCHANGED <<args, swagger, openapi, cliFrame>>

\* serde_json::to_writer_pretty(&mut buf, &openapi)?; Ok(())
WriteOutput ==
    /\ pc = "to_writer"
    /\ files' = [files EXCEPT ![args.out] = Unwrap(openapi)]
    /\ pc' = "exit_ok"
    /\ UNCHANGED <<args, swagger, openapi, stdout, cliFrame>>

\* the same, the device failing under the writer
WriteFails ==
    /\ pc = "to_writer"
    /\ files' = [files EXCEPT ![args.out] = "openapi_cut"]
    /\ ReportError("write failed")
    /\ UNCHANGED <<args, swagger, openapi, cliFrame>>

NextCli ==
    \/ GetMatches
    \/ OpenSwagger
    \/ ReadSwagger
    \/ IntoOpenApi
    \/ CreateOutput
    \/ WriteOutput
    \/ WriteFails

SpecCli == InitCli /\ [][NextCli]_vars

\* the run cannot get to write: the output path is taken, or the input is
\* missing or is no Swagger document
Refused(fs, cmd) ==
    \/ fs[cmd.out] # NoFile
    \/ ~cmd.accepted
    \/ cmd.swagger = None
    \/ fs[Unwrap(cmd.swagger)] \notin {"swagger", "swagger_items"}

\* C17: the output file is created only after the input was opened, parsed
\* and converted, and only when no file is at the output path; in a run
\* where the output path exists or reading/parsing the input fails, the
\* file system is left as it was and the error is reported.
C17_RunOrdering ==
    /\ [][files' # files =>
            /\ pc \in {"create_new", "to_writer"}
            /\ IsSome(swagger) /\ IsSome(openapi)
            /\ pc = "create_new" => files[args.out] = NoFile
            /\ \A p \in PathNames \ {args.out} : files'[p] = files[p]]_vars
    /\ \A fs \in FileSystems, cmd \in CommandLines :
          (files = fs /\ args = cmd /\ Refused(fs, cmd)) =>
              [](/\ files = fs
                 /\ pc \notin {"exit_ok", "to_writer"}
                 /\ (pc = "exit_error" => "help" \in {stdout[j] : j \in 1..Len(stdout)}))

\* C17 witness: a run that found the output path taken has ended with the
\* error reported.
C17_Witness ==
    /\ pc = "exit_error"
    /\ IsSome(openapi)
    /\ files[args.out] \in Contents
    /\ stdout[Len(stdout)] = "file exists"

\* C17, the other case: a run has created and written the output.
C17_WitnessWritten ==
    /\ pc = "exit_ok"
    /\ files[args.out] = "openapi"

(***************************************************************************)
(* Specification SpecExtensions: a field bag is deserialized into          *)
(* Extensions and propagated to the target, by into_openapi_extensions     *)
(* (schemas, parameters, operations, paths) or by Into (responses)         *)
(***************************************************************************)
ExtensionKeys == {XNullable, <<XPrefix, "internal">>, <<"title">>, <<"x">>}
JsonValues == {"true", "false", "1"}
FieldBags == MapsOver(ExtensionKeys, JsonValues)

InitExtensions ==
    /\ pc = "field_bag"
    /\ value \in FieldBags
    /\ extension_map = <<>>
    /\ openapi = <<>>
    /\ swagger = <<>>
    /\ IdleWalk /\ IdleCli
    /\ IdleEarly

\* impl Deserialize for Extensions
DeserializeBag ==
    /\ pc = "field_bag"
    /\ extension_map' = DeserializeExtensions(value)
    /\ pc' = "extensions"
    /\ UNCHANGED <<value, openapi, swagger, todo, conversions,
                   files, args, stdout, earlyVars>>

\* .extensions(value.extensions.into_openapi_extensions())
PropagateStripped ==
    /\ pc = "extensions"
    /\ openapi' = into_openapi_extensions(extension_map)
    /\ pc' = "into_openapi_extensions"
    /\ UNCHANGED <<value, extension_map, swagger, todo, conversions,
                   files, args, stdout, earlyVars>>

\* From<Response>: .extensions(value.extensions.map(Into::into))
PropagateInto ==
    /\ pc = "extensions"
    /\ openapi' = Some(FromExtensions(extension_map))
    /\ pc' = "into"
    /\ UNCHANGED <<value, extension_map, swagger, todo, conversions,
                   files, args, stdout, earlyVars>>

NextExtensions == DeserializeBag \/ PropagateStripped \/ PropagateInto

SpecExtensions == InitExtensions /\ [][NextExtensions]_vars

Propagated == IF IsSome(openapi) THEN Unwrap(openapi) ELSE {}

\* C18: deserialization retains exactly the entries whose key starts with
\* 'x-'; propagation hands on exactly those except 'x-nullable', values
\* unchanged; 'x-nullable' is in no propagated extension set, and neither
\* is a key without the prefix.
C18_ExtensionFilter ==
    /\ pc # "field_bag" =>
          extension_map = {e \in value : e[1][1] = XPrefix}
    /\ pc \in {"into_openapi_extensions", "into"} =>
          /\ Propagated = {e \in value : e[1][1] = XPrefix /\ e[1] # XNullable}
          /\ XNullable \notin Keys(Propagated)
          /\ \A k \in Keys(Propagated) : k[1] = XPrefix

\* The part that holds: into_openapi_extensions strips 'x-nullable', and no
\* path propagates a key without the prefix.
C18_StrippedByIntoOpenapiExtensions ==
    /\ pc # "field_bag" =>
          extension_map = {e \in value : e[1][1] = XPrefix}
    /\ pc = "into_openapi_extensions" =>
          Propagated = {e \in value : e[1][1] = XPrefix /\ e[1] # XNullable}
    /\ pc = "into" => \A k \in Keys(Propagated) : k[1] = XPrefix

(***************************************************************************)
(* Specification SpecWalk: the calls that converting the definitions       *)
(* makes (From<Definitions>, RefOr::into_openapi_ref, From<Schema>).       *)
(* todo is the sequence of Reference-or-Values whose into_openapi_ref has  *)
(* been called for and has not run yet.                                    *)
(***************************************************************************)
\* the Reference-or-Values that From<Schema> hands to into_openapi_ref:
\* array.items; the members of an AllOf; an Object's additionalProperties
\* when it is a RefOr
Children(schema) ==
    CASE schema.variant = "Array" -> schema.items
      [] schema.variant = "AllOf" -> schema.items
      [] schema.variant = "Object" ->
            IF /\ IsSome(schema.additional_properties)
               /\ Unwrap(schema.additional_properties).k = "RefOr"
            THEN Unwrap(schema.additional_properties).v
            ELSE <<>>

\* the last segment of a pointer: the name it refers to
ReferredName(loc) == loc[Len(loc)]

\* into_openapi_ref, as a bug would have it: a reference is looked up among
\* the definitions and the node it names is converted in its place
CalleesFollowingReferences(r, definitions) ==
    IF r.k = "Ref"
    THEN IF ReferredName(r.ref) \in Keys(definitions)
         THEN <<EntryOf(definitions, ReferredName(r.ref))>>
         ELSE <<>>
    ELSE Children(Unwrap(r.v))

\* the calls of into_openapi_ref that into_openapi_ref(r) makes: none for
\* RefOr::Ref (the pointer string is rewritten, the definitions are not at
\* hand), those of V::from(t) for RefOr::T
Callees(r, definitions) ==
    IF r.k = "Ref" THEN <<>> ELSE Children(Unwrap(r.v))

MaxConversions == 6

DefinitionNames == <<"A", "B">>

ArrayNode(n) ==
    [EmptyNode EXCEPT !.type = OneType("array"), !.items = OneNode(n)]
RefTo(name) == [EmptyNode EXCEPT !.ref = Some(Pointer(<<"definitions", name>>))]

\* definitions that refer to themselves and to each other, directly and
\* from inside arrays, allOf lists and additionalProperties
DefinitionNodes ==
    {RefTo("A"), RefTo("B"), StringNode,
     ArrayNode(RefTo("A")), ArrayNode(StringNode),
     ArrayNode(ArrayNode(RefTo("B"))),
     [EmptyNode EXCEPT !.items = NodeList(<<RefTo("B"), StringNode>>)],
     [EmptyNode EXCEPT !.type = OneType("object"),
                       !.additionalProperties = AddlMap(RefTo("A"))]}

DefinitionValues == {Unwrap(DeserializeRefOr(n).v) : n \in DefinitionNodes}

WalkedDefinitions ==
    MapsOver({DefinitionNames[j] : j \in 1..Len(DefinitionNames)},
             DefinitionValues)

\* value.defintions.into_iter(): the values, in key order
RECURSIVE ValuesInOrder(_, _)
ValuesInOrder(definitions, names) ==
    IF names = <<>> THEN <<>>
    ELSE (IF Head(names) \in Keys(definitions)
          THEN <<EntryOf(definitions, Head(names))>> ELSE <<>>)
            \o ValuesInOrder(definitions, Tail(names))

InitWalk ==
    /\ pc = "definitions"
    /\ value \in WalkedDefinitions
    /\ todo = <<>>
    /\ conversions = 0
    /\ openapi = {}            \* the BTreeMap that collect() fills
    /\ swagger = <<>>
    /\ IdleExtensions /\ IdleCli
    /\ IdleEarly

walkFrame == <<swagger, extension_map, files, args, stdout, earlyVars>>

\* impl From<Definitions>: value.defintions.into_iter().map(..)
StartWalk ==
    /\ pc = "definitions"
    /\ todo' = ValuesInOrder(value, DefinitionNames)
    /\ pc' = "into_openapi_ref"
    /\ UNCHANGED <<value, conversions, openapi, walkFrame>>

\* RefOr::Ref(r) => openapi::RefOr::Ref(openapi::Ref::new(..))
VisitRef ==
    /\ pc = "into_openapi_ref"
    /\ todo # <<>>
    /\ Head(todo).k = "Ref"
    /\ todo' = Callees(Head(todo), value) \o Tail(todo)
    /\ UNCHANGED <<pc, value, conversions, openapi, walkFrame>>

\* RefOr::T(t) => openapi::RefOr::T(V::from(t))
VisitSchema ==
    /\ pc = "into_openapi_ref"
    /\ todo # <<>>
    /\ Head(todo).k = "T"
    /\ conversions < MaxConversions
    /\ conversions' = conversions + 1
    /\ todo' = Callees(Head(todo), value) \o Tail(todo)
    /\ UNCHANGED <<pc, value, openapi, walkFrame>>

\* .collect()
EndWalk ==
    /\ pc = "into_openapi_ref"
    /\ todo = <<>>
    /\ openapi' = FromDefinitions(value)
    /\ pc' = "collected"
    /\ UNCHANGED <<value, todo, conversions, walkFrame>>

NextWalk == StartWalk \/ VisitRef \/ VisitSchema \/ EndWalk

SpecWalk == InitWalk /\ [][NextWalk]_vars

\* a call that has been made runs
SpecWalkFair == SpecWalk /\ WF_vars(NextWalk)

\* the number of inline schema nodes under a Reference-or-Value
RECURSIVE InlineNodes(_)
RECURSIVE InlineNodesOfAll(_)
InlineNodes(r) ==
    IF r.k = "Ref" THEN 0 ELSE 1 + InlineNodesOfAll(Children(Unwrap(r.v)))
InlineNodesOfAll(rs) ==
    IF rs = <<>> THEN 0 ELSE InlineNodes(Head(rs)) + InlineNodesOfAll(Tail(rs))

C19_WitnessNested ==
    /\ pc = "collected"
    /\ conversions = 3
    /\ \E k \in Keys(value) :
          /\ EntryOf(value, k).k = "T"
          /\ \E c \in {Children(Unwrap(EntryOf(value, k).v))[1]} :
                c = RefOrRef(Pointer(<<"definitions", k>>))

(***************************************************************************)
(* Absent and empty extension sets                                         *)
(***************************************************************************)
\* C21: into_openapi_extensions returns 'no extensions' iff the extension
\* bag is empty; a bag whose only entry is 'x-nullable' yields a present,
\* empty extension set, so a node carrying only 'x-nullable: false' and one
\* carrying no extension get different targets.
C21_AbsentIffEmptyBag ==
    pc = "into_openapi_extensions" =>
        /\ openapi = None <=> extension_map = {}
        /\ Keys(extension_map) = {XNullable} =>
              /\ openapi = Some({})
              /\ openapi # into_openapi_extensions({})

\* C21 witness: a bag whose only 'x-' entry is 'x-nullable: false' has been
\* propagated as a present, empty extension set.
C21_Witness ==
    /\ pc = "into_openapi_extensions"
    /\ extension_map = {<<XNullable, "false">>}
    /\ openapi = Some({})

\* C21, the other direction: an empty bag has been propagated as none.
C21_WitnessEmpty ==
    /\ pc = "into_openapi_extensions"
    /\ extension_map = {}
    /\ value # {}
    /\ openapi = None

(***************************************************************************)
(* Array resolution and the type discriminator                             *)
(***************************************************************************)
ItemsParse(n) == n.items.k = "one" /\ NestedParses(Unwrap(n.items.v))

EmittedAsArray ==
    pc = "converted" =>
        /\ converted.k = "T"
        /\ Unwrap(converted.v).kind = "Array"
        /\ Unwrap(converted.v).schema_type = OneType("array")

\* C22 as stated: a node with a 'type' key, whatever its value, and a
\* parseable 'items' resolves as Array and is emitted as a target array
\* schema, the declared type being discarded; only nodes with a 'type' key
\* and no parseable 'items' reach the Object variant.
C22_TypeAndItemsResolveAsArray ==
    (Resolved /\ node.ref = None) =>
        /\ (TypeParses(node) /\ ItemsParse(node)) =>
              ParsedVariant = "Array" /\ EmittedAsArray
        /\ ParsedVariant = "Object" =>
              TypeParses(node) /\ ~ItemsParse(node)

\* C22 (amended): a node whose 'type' holds any valid type value and whose
\* 'items' parses, and none of whose keys declared by Array is ill-typed,
\* resolves as Array and is emitted as a target array schema of type
\* 'array'; the nodes that reach Object are those with a valid 'type' that
\* Array does not take.
C22_ArrayWhateverTheType ==
    (Resolved /\ node.ref = None) =>
        /\ ArrayAccepts(node) => ParsedVariant = "Array" /\ EmittedAsArray
        /\ ParsedVariant = "Array" => ArrayAccepts(node)
        /\ ParsedVariant = "Object" =>
              TypeParses(node) /\ ~ArrayAccepts(node)

\* C22 witness: a node declared 'object' with parseable items has been
\* converted to an array schema.
C22_Witness ==
    /\ pc = "converted"
    /\ node.ref = None
    /\ node.type = OneType("object")
    /\ ItemsParse(node)
    /\ Unwrap(converted.v).kind = "Array"
    /\ Unwrap(converted.v).schema_type = OneType("array")

====
